---- MODULE Spec2Model ----
(***************************************************************************)
(* pa - Port Authority.  A model of the lock-free port vendor: the array   *)
(* Ports (slot 0 is the nominal next port, slots 1..limPort are the        *)
(* per-port flags), the operations next / assign / release split at their  *)
(* atomic memory accesses, and the HTTP handler that drives them.          *)
(* The TCP/IP limit is scaled down; min and max are start-up inputs.       *)
(***************************************************************************)
EXTENDS Integers, Sequences, FiniteSets, TLC

\* ---------------------------------------------------------------- bounds
limPort == 3                 \* scaled TCP/IP limit (65535 in the program)
NumThreads == 2              \* concurrent request goroutines
MaxPathLen == 2              \* longest request path generated (characters after "/")
MaxReqs == 4                 \* requests served in a concurrent run
MaxSeqReqs == 5              \* requests served in a sequential run
MaxShutReqs == 2             \* requests served in a run that is shut down
MaxSignals == 2              \* interrupt signals delivered to the process

\* ------------------------------------------------------ program constants
autoPort == 0                \* magic number for auto-assignment
portDigits == 5              \* portFormat = ^/\d{1,5}$

Threads == 1..NumThreads
NonDigit == 10               \* a path character that is not a decimal digit
PathChars == (0..(limPort + 1)) \cup {NonDigit}
Paths == UNION {[1..k -> PathChars] : k \in 0..MaxPathLen}
ShortPaths == {p \in Paths : Len(p) <= 1}
Methods == {"GET", "POST", "DELETE", "PUT"}

errNone == "ok"
errPortOutOfRange == "error: port out of range"
errAllPortsAssigned == "error: all Ports assigned"
errPortAlreadyAssigned == "error: port is already assigned"
errInvalidRoute == "error: invalid route"
errInvalidMethod == "error: method not allowed"

VARIABLES
  minPort, maxPort,  \* the -min / -max flags, fixed at start-up
  Ports,             \* v.Ports: [0..limPort -> uint32], Ports[0] is the next-port hint
  th,                \* per request goroutine: position and locals
  held,              \* history: successful claims of a port since its last off()
  reqPath,           \* history: r.URL.Path of the running request (sequential use)
  pre,               \* history: Ports when the running operation started (sequential use)
  lastDone,          \* history: the previously completed request (sequential use)
  scenOn, scen,      \* history: results so far while the run follows a reference scenario
  launched, rets,    \* history: GET / calls launched from a fresh table, and their results
  nreq,              \* requests started so far
  fresh,             \* history: the process started without a snapshot
  lastClaim,         \* history, per port, kept for a fresh start: the last operation on
                     \* the port that has returned and changed it was a successful claim
  run,               \* the process: "up", "exiting" (main past <-quit), "exited", "reloaded"
  signalChan,        \* signals buffered in signalChan (capacity 1)
  nsig,              \* signals delivered so far
  notify,            \* signal.Notify is in effect (until signal.Stop)
  saver,             \* the signal goroutine: position, elements marshalled, data
  config,            \* contents of the config file: the marshalled elements, <<>> if empty
                     \* (a file loaded at start-up is not kept: it is rewritten before
                     \* it is read again)
  savedAt,           \* history: the port flags when the first save began, <<>> before
  busy,              \* history: a request was in flight or arrived once the save had begun
  instants           \* history: the port flags the table has had while Marshal read it

vars == <<minPort, maxPort, Ports, th, held, reqPath, pre, lastDone, scenOn, scen, launched, rets,
          nreq, fresh, lastClaim, run, signalChan, nsig, notify, saver, config, savedAt,
          busy, instants>>

\* ------------------------------------------------------------ pure helpers
RECURSIVE Atoi(_)
\* strconv.Atoi on a string of decimal digits
Atoi(s) == IF Len(s) = 0 THEN 0
           ELSE 10 * Atoi(SubSeq(s, 1, Len(s) - 1)) + s[Len(s)]

RECURSIVE Itoa(_)
\* fmt.Sprintf("%d", port) for port >= 0
Itoa(n) == IF n < 10 THEN <<n>> ELSE Append(Itoa(n \div 10), n % 10)

\* portRegExp.Match: ^/\d{1,5}$ (the path is held without its leading "/")
portRegExpMatch(path) ==
  /\ Len(path) >= 1
  /\ Len(path) <= portDigits
  /\ \A i \in 1..Len(path) : path[i] \in 0..9

\* the start-up clamp of Ports[0]
ClampNextMut(np, lo, hi) == np
ClampNext(np, lo, hi) ==
  IF np < lo THEN lo
  ELSE IF np > hi + 1 THEN hi + 1
  ELSE np

\* onIffOff: CompareAndSwapUint32(&v.Ports[port], 0, 1) -- success flag and new array
onIffOffOKMut(ps, port) == TRUE
onIffOffOK(ps, port) == ps[port] = 0
onIffOffPorts(ps, port) == IF onIffOffOK(ps, port) THEN [ps EXCEPT ![port] = 1] ELSE ps

\* off: StoreUint32(&v.Ports[port], 0)
offPortsMut(ps, port) == ps
offPorts(ps, port) == [ps EXCEPT ![port] = 0]

\* loadNext / updateNext on Ports[0] (values stay far below the uint32 limit:
\* every store is at most limPort + 2)
loadNext(ps) == ps[0]
updateNextMut(ps, i) == ps
updateNext(ps, i) == [ps EXCEPT ![0] = i]

\* the ports visited by "for n := range v.Ports[minPort:maxPort]"
ScanLenMut(lo, hi) == hi - lo + 1
ScanLen(lo, hi) == hi - lo

\* the range test of assign and release
OutOfRangeMut(port, lo, hi) == port > hi
OutOfRange(port, lo, hi) == port < lo \/ port > hi

InRange(p) == p >= minPort /\ p <= maxPort
RangePorts == minPort..maxPort
AllAssigned(ps) == \A p \in RangePorts : ps[p] # 0

\* the port flags of a table
Flags(ps) == [p \in 1..limPort |-> ps[p]]
\* json.Marshal(v): each element of Ports as a decimal number
Marshal(ps) == [i \in 1..(limPort + 1) |-> Itoa(ps[i - 1])]
\* json.Unmarshal(confJSON, &v): an empty file is an error and leaves v zeroed
Unmarshal(data) ==
  [i \in 0..limPort |-> IF Len(data) = limPort + 1 THEN Atoi(data[i + 1]) ELSE 0]
\* init: load the config file, then bring the hint into minPort..maxPort+1
Load(data, lo, hi) ==
  LET ps == Unmarshal(data) IN [ps EXCEPT ![0] = ClampNext(ps[0], lo, hi)]

\* --------------------------------------------------------------- records
\* (was: history, the claims outstanding on the port this goroutine claimed,
\* counted just before its claim)
\* (op: the vendor method the handler called -- get, post or del -- if any)
\* (reads, tries, writes: history, the loads of Ports[0], the compare-and-swaps
\* and the stores this request has done; wrote: the last value it stored in Ports[0])
Idle == [pc |-> "idle", method |-> "", op |-> "", port |-> 0, np |-> 0, n |-> 0,
         ld |-> 0, status |-> 0, err |-> errNone, body |-> <<>>, was |-> 0,
         reads |-> 0, tries |-> 0, writes |-> 0, wrote |-> 0]

\* the goroutine's locals die when the handler returns
Return(r) == [r EXCEPT !.pc = "done", !.np = 0, !.n = 0, !.ld = 0]
\* w.Write([]byte(fmt.Sprintf("%d", port))): 200 and the decimal port
Reply(r, p) == [Return(r) EXCEPT !.status = 200, !.err = errNone, !.body = Itoa(p)]
\* http.Error(w, msg, code)
HttpError(r, e, code) == [Return(r) EXCEPT !.status = code, !.err = e, !.body = <<>>]
\* internalServerError(w, err)
Fail(r, e) == HttpError(r, e, 500)

\* the signal goroutine waiting in "for range signalChan"
SaverIdle == [pc |-> "recv", i |-> 0, data |-> <<>>]

\* ------------------------------------------------------------------ Init
Fresh == Ports = [i \in 0..limPort |-> IF i = 0 THEN minPort ELSE 0]

Init ==
  /\ minPort \in 1..limPort
  /\ maxPort \in minPort..limPort
  /\ \E raw \in 0..(limPort + 2), flags \in [1..limPort -> {0, 1}] :
       Ports = [i \in 0..limPort |->
                  IF i = 0 THEN ClampNext(raw, minPort, maxPort) ELSE flags[i]]
  /\ th = [t \in Threads |-> Idle]
  /\ held = [p \in 0..limPort |-> IF p = 0 THEN 0 ELSE Ports[p]]
  /\ reqPath = <<>>
  /\ pre = <<>>
  /\ lastDone = Idle
  /\ scenOn = Fresh
  /\ scen = <<>>
  /\ launched = IF Fresh THEN 0 ELSE -1
  /\ rets = <<>>
  /\ nreq = 0
  /\ fresh = Fresh
  /\ lastClaim = [p \in 0..limPort |-> FALSE]
  /\ run = "up"
  /\ signalChan = 0
  /\ nsig = 0
  /\ notify = TRUE
  /\ saver = SaverIdle
  /\ config = <<>>
  /\ savedAt = <<>>
  /\ busy = FALSE
  /\ instants = {}

\* ------------------------------------------------- ServeHTTP: dispatching
\* the handler up to its first access to v.Ports
Dispatch(method, path) ==
  LET r0 == [Idle EXCEPT !.method = method] IN
  IF path = <<>>
  THEN IF method = "GET"
       THEN [r0 EXCEPT !.pc = "next_load", !.op = "get", !.port = autoPort]
       ELSE HttpError(r0, errInvalidMethod, 405)
  ELSE IF portRegExpMatch(path)
  THEN LET port == Atoi(path)
           r == [r0 EXCEPT !.port = port]
           post == [r EXCEPT !.op = "post"]
           del == [r EXCEPT !.op = "del"] IN
       IF method = "POST"
       THEN IF port = autoPort THEN [post EXCEPT !.pc = "next_load"]
            ELSE IF OutOfRange(port, minPort, maxPort) THEN Fail(post, errPortOutOfRange)
            ELSE [post EXCEPT !.pc = "assign_cas"]
       ELSE IF method = "DELETE"
       THEN IF OutOfRange(port, minPort, maxPort) THEN Fail(del, errPortOutOfRange)
            ELSE [del EXCEPT !.pc = "rel_off"]
       ELSE HttpError(r0, errInvalidMethod, 405)
  ELSE HttpError(r0, errInvalidRoute, 404)

\* ------------------------------------------------------ the atomic steps
Hist == <<reqPath, pre, lastDone, scenOn, scen, launched, rets, nreq>>
SeqHist == <<reqPath, pre, lastDone, scenOn, scen>>
ConcHist == <<launched, rets>>
Shut == <<run, signalChan, nsig, notify, saver, config, savedAt, busy>>
Conf0 == <<minPort, maxPort, fresh, Shut>>
Conf == <<Conf0, lastClaim, instants>>

\* history: an operation that changed port p has returned
Returned(p, claim) ==
  lastClaim' = IF fresh THEN [lastClaim EXCEPT ![p] = claim] ELSE lastClaim

\* history: the flags after this step are flags the table has had during the read
Observed ==
  instants' = IF saver.pc = "marshal" THEN instants \cup {Flags(Ports')} ELSE instants

\* next: np := int(v.loadNext()); if np > maxPort return errAllPortsAssigned
NextLoad(t) ==
  /\ th[t].pc = "next_load"
  /\ LET np == loadNext(Ports) IN
       th' = [th EXCEPT ![t] = IF np > maxPort
                                THEN Fail([@ EXCEPT !.np = np, !.reads = @ + 1],
                                          errAllPortsAssigned)
                                ELSE [@ EXCEPT !.pc = "next_cas", !.np = np,
                                               !.reads = @ + 1]]
  /\ UNCHANGED <<Conf, Ports, held, Hist>>

\* where the scan goes after n candidates failed
ScanFrom(r, n) ==
  IF n < ScanLen(minPort, maxPort)
  THEN [r EXCEPT !.pc = "scan", !.n = n, !.np = n + minPort]
  ELSE [r EXCEPT !.pc = "latch"]

\* next: if v.onIffOff(np) ... else fall into the scan
NextCas(t) ==
  /\ th[t].pc = "next_cas"
  /\ LET np == th[t].np IN
       IF onIffOffOK(Ports, np)
       THEN /\ Ports' = onIffOffPorts(Ports, np)
            /\ held' = [held EXCEPT ![np] = @ + 1]
            /\ th' = [th EXCEPT ![t].pc = "next_load2", ![t].was = held[np],
                                ![t].tries = @ + 1]
       ELSE /\ th' = [th EXCEPT ![t] = ScanFrom([@ EXCEPT !.tries = @ + 1], 0)]
            /\ UNCHANGED <<Ports, held>>
  /\ Observed
  /\ UNCHANGED <<Conf0, lastClaim, Hist>>

\* next: the load inside v.updateNext(v.loadNext() + 1)
NextLoad2(t) ==
  /\ th[t].pc = "next_load2"
  /\ th' = [th EXCEPT ![t].pc = "next_store", ![t].ld = loadNext(Ports),
                      ![t].reads = @ + 1]
  /\ UNCHANGED <<Conf, Ports, held, Hist>>

\* next: the store of v.updateNext(v.loadNext() + 1); return np, nil
NextStore(t) ==
  /\ th[t].pc = "next_store"
  /\ Ports' = updateNext(Ports, th[t].ld + 1)
  /\ th' = [th EXCEPT ![t] = Reply([@ EXCEPT !.writes = @ + 1, !.wrote = th[t].ld + 1], @.np)]
  /\ Returned(th[t].np, TRUE)
  /\ UNCHANGED <<Conf0, instants, held, Hist>>

\* next: one iteration of the scan loop
Scan(t) ==
  /\ th[t].pc = "scan"
  /\ LET np == th[t].np IN
       IF onIffOffOK(Ports, np)
       THEN /\ Ports' = onIffOffPorts(Ports, np)
            /\ held' = [held EXCEPT ![np] = @ + 1]
            /\ th' = [th EXCEPT ![t].pc = "scan_store", ![t].was = held[np],
                                ![t].tries = @ + 1]
       ELSE /\ th' = [th EXCEPT ![t] = ScanFrom([@ EXCEPT !.tries = @ + 1], @.n + 1)]
            /\ UNCHANGED <<Ports, held>>
  /\ Observed
  /\ UNCHANGED <<Conf0, lastClaim, Hist>>

\* next: v.updateNext(uint32(np) + 1); return np, nil
ScanStore(t) ==
  /\ th[t].pc = "scan_store"
  /\ Ports' = updateNext(Ports, th[t].np + 1)
  /\ th' = [th EXCEPT ![t] = Reply([@ EXCEPT !.writes = @ + 1, !.wrote = th[t].np + 1], @.np)]
  /\ Returned(th[t].np, TRUE)
  /\ UNCHANGED <<Conf0, instants, held, Hist>>

\* the hint stored when the scan found nothing
LatchValueMut(hi) == hi
LatchValue(hi) == hi + 1

\* next: v.updateNext(uint32(maxPort) + 1); return 0, errAllPortsAssigned
Latch(t) ==
  /\ th[t].pc = "latch"
  /\ Ports' = updateNext(Ports, LatchValue(maxPort))
  /\ th' = [th EXCEPT ![t] = Fail([@ EXCEPT !.writes = @ + 1, !.wrote = LatchValue(maxPort)],
                                  errAllPortsAssigned)]
  /\ UNCHANGED <<Conf, held, Hist>>

\* assign: if v.onIffOff(port) return port else errPortAlreadyAssigned
AssignCas(t) ==
  /\ th[t].pc = "assign_cas"
  /\ LET port == th[t].port IN
       IF onIffOffOK(Ports, port)
       THEN /\ Ports' = onIffOffPorts(Ports, port)
            /\ held' = [held EXCEPT ![port] = @ + 1]
            /\ th' = [th EXCEPT ![t] = Reply([@ EXCEPT !.was = held[port], !.tries = @ + 1],
                                             port)]
            /\ Returned(port, TRUE)
       ELSE /\ th' = [th EXCEPT ![t] = Fail([@ EXCEPT !.tries = @ + 1],
                                            errPortAlreadyAssigned)]
            /\ UNCHANGED <<Ports, held, lastClaim>>
  /\ Observed
  /\ UNCHANGED <<Conf0, Hist>>

\* release: v.off(port)
ReleaseOff(t) ==
  /\ th[t].pc = "rel_off"
  /\ Ports' = offPorts(Ports, th[t].port)
  /\ held' = [held EXCEPT ![th[t].port] = 0]
  /\ th' = [th EXCEPT ![t].pc = "rel_store", ![t].writes = @ + 1]
  /\ Observed
  /\ UNCHANGED <<Conf0, lastClaim, Hist>>

\* release: v.updateNext(uint32(port)); return port, nil
ReleaseStore(t) ==
  /\ th[t].pc = "rel_store"
  /\ Ports' = updateNext(Ports, th[t].port)
  /\ th' = [th EXCEPT ![t] = Reply([@ EXCEPT !.writes = @ + 1, !.wrote = th[t].port], @.port)]
  /\ Returned(th[t].port, FALSE)
  /\ UNCHANGED <<Conf0, instants, held, Hist>>

\* --------------------------------------------- concurrent request handling
RangeSize == maxPort - minPort + 1

\* a request arrives and its goroutine runs ServeHTTP up to the first access
Start(t) ==
  /\ th[t].pc = "idle"
  /\ nreq < MaxReqs
  /\ nreq' = nreq + 1
  /\ \E method \in Methods, path \in ShortPaths :
       /\ th' = [th EXCEPT ![t] = Dispatch(method, path)]
       /\ IF launched >= 0 /\ method = "GET" /\ path = <<>> /\ launched < RangeSize
          THEN launched' = launched + 1 /\ rets' = rets
          ELSE launched' = -1 /\ rets' = <<>>
  /\ scenOn' = FALSE
  /\ UNCHANGED <<Conf, Ports, held, reqPath, pre, lastDone, scen>>

\* the response has been written; the goroutine ends
Respond(t) ==
  /\ th[t].pc = "done"
  /\ th' = [th EXCEPT ![t] = Idle]
  /\ rets' = IF launched >= 0
             THEN Append(rets, IF th[t].status = 200 THEN Atoi(th[t].body) ELSE 0)
             ELSE rets
  /\ UNCHANGED <<Conf, Ports, held, SeqHist, launched, nreq>>

Next ==
  \/ \E t \in Threads : Start(t)
  \/ \E t \in Threads : NextLoad(t)
  \/ \E t \in Threads : NextCas(t)
  \/ \E t \in Threads : NextLoad2(t)
  \/ \E t \in Threads : NextStore(t)
  \/ \E t \in Threads : Scan(t)
  \/ \E t \in Threads : ScanStore(t)
  \/ \E t \in Threads : Latch(t)
  \/ \E t \in Threads : AssignCas(t)
  \/ \E t \in Threads : ReleaseOff(t)
  \/ \E t \in Threads : ReleaseStore(t)
  \/ \E t \in Threads : Respond(t)

Spec == Init /\ [][Next]_vars

\* ----------------------------------- sequential use: one request at a time
\* the reference scenarios of the fresh table, by range size
ScenarioOps ==
  LET get == [op |-> "get", port |-> autoPort] IN
  IF RangeSize = 3
  THEN <<get, get, [op |-> "post", port |-> minPort], [op |-> "del", port |-> minPort], get>>
  ELSE IF RangeSize = 1 THEN <<get, get>>
  ELSE <<>>

Outcome(r) == [status |-> r.status, err |-> r.err, body |-> r.body]

\* sequential use needs one goroutine only
SeqThread == CHOOSE t \in Threads : TRUE

StartSeq(t) ==
  /\ \A u \in Threads : th[u].pc = "idle"
  /\ nreq < MaxSeqReqs
  /\ nreq' = nreq + 1
  /\ \E method \in Methods, path \in Paths :
       LET r == Dispatch(method, path) IN
         /\ th' = [th EXCEPT ![t] = r]
         /\ reqPath' = path
         /\ scenOn' = (/\ scenOn
                       /\ Len(scen) < Len(ScenarioOps)
                       /\ ScenarioOps[Len(scen) + 1] =
                            [op |-> r.op, port |-> r.port])
  /\ scen' = IF scenOn' THEN scen ELSE <<>>
  /\ pre' = Ports
  /\ launched' = -1
  /\ rets' = <<>>
  /\ UNCHANGED <<Conf, Ports, held, lastDone>>

\* lastDone keeps the request just answered if it succeeded
RespondSeq(t) ==
  /\ th[t].pc = "done"
  /\ th' = [th EXCEPT ![t] = Idle]
  /\ lastDone' = IF th[t].status = 200 THEN th[t] ELSE Idle
  /\ scen' = IF scenOn THEN Append(scen, Outcome(th[t])) ELSE scen
  /\ pre' = <<>>
  /\ reqPath' = <<>>
  /\ UNCHANGED <<Conf, Ports, held, scenOn, ConcHist, nreq>>

NextSeq ==
  \/ StartSeq(SeqThread)
  \/ NextLoad(SeqThread)
  \/ NextCas(SeqThread)
  \/ NextLoad2(SeqThread)
  \/ NextStore(SeqThread)
  \/ Scan(SeqThread)
  \/ ScanStore(SeqThread)
  \/ Latch(SeqThread)
  \/ AssignCas(SeqThread)
  \/ ReleaseOff(SeqThread)
  \/ ReleaseStore(SeqThread)
  \/ RespondSeq(SeqThread)

SeqSpec == Init /\ [][NextSeq]_vars

\* --------------------------------------------- shutdown, save and restart
\* a request arrives while the process runs; the listener is never closed
StartShut(t) ==
  /\ run \in {"up", "exiting"}
  /\ th[t].pc = "idle"
  /\ nreq < MaxShutReqs
  /\ nreq' = nreq + 1
  /\ \E method \in Methods, path \in ShortPaths :
       th' = [th EXCEPT ![t] = Dispatch(method, path)]
  /\ busy' = (busy \/ savedAt # <<>>)
  /\ launched' = -1 /\ rets' = <<>> /\ scenOn' = FALSE
  /\ UNCHANGED <<minPort, maxPort, fresh, lastClaim, instants, Ports, held,
                 reqPath, pre, lastDone, scen,
                 run, signalChan, nsig, notify, saver, config, savedAt>>

\* os.Interrupt is delivered: relayed to signalChan without blocking while
\* Notify is in effect, the default action (the process dies) after signal.Stop
Signal ==
  /\ run \in {"up", "exiting"}
  /\ nsig < MaxSignals
  /\ nsig' = nsig + 1
  /\ IF notify
     THEN /\ signalChan' = 1
          /\ UNCHANGED <<run, th>>
          /\ UNCHANGED <<saver, instants>>
     ELSE /\ run' = "exited"
          /\ th' = [t \in Threads |-> Idle]
          /\ signalChan' = 0
          /\ saver' = SaverIdle
          /\ instants' = {}
  /\ UNCHANGED <<minPort, maxPort, fresh, lastClaim, Ports, held, Hist,
                 notify, config, savedAt, busy>>

\* for range signalChan: a signal is received and json.Marshal(v) begins
SaveRecv ==
  /\ run \in {"up", "exiting"}
  /\ saver.pc = "recv"
  /\ signalChan = 1
  /\ signalChan' = 0
  /\ saver' = [pc |-> "marshal", i |-> 0, data |-> <<>>]
  /\ instants' = {Flags(Ports)}
  /\ savedAt' = IF savedAt = <<>> THEN Flags(Ports) ELSE savedAt
  /\ busy' = (busy \/ \E t \in Threads : th[t].pc # "idle")
  /\ UNCHANGED <<minPort, maxPort, fresh, lastClaim, Ports, th, held, Hist,
                 run, nsig, notify, config>>

\* json.Marshal(v) reads one more element of v.Ports, without synchronisation
SaveMarshal ==
  /\ run \in {"up", "exiting"}
  /\ saver.pc = "marshal"
  /\ saver' = [pc |-> IF saver.i = limPort THEN "create" ELSE "marshal",
               i |-> saver.i + 1,
               data |-> Append(saver.data, Itoa(Ports[saver.i]))]
  /\ UNCHANGED <<minPort, maxPort, fresh, lastClaim, instants, Ports, th, held, Hist,
                 run, signalChan, nsig, notify, config, savedAt, busy>>

\* os.Create(config) truncates the file
SaveCreate ==
  /\ run \in {"up", "exiting"}
  /\ saver.pc = "create"
  /\ config' = <<>>
  /\ saver' = [saver EXCEPT !.pc = "write"]
  /\ instants' = {}
  /\ UNCHANGED <<minPort, maxPort, fresh, lastClaim, Ports, th, held, Hist,
                 run, signalChan, nsig, notify, savedAt, busy>>

\* f.Write(data); signal.Stop(signalChan); server.SetKeepAlivesEnabled(false):
\* the file is written and no further signal is relayed; the listener and the
\* handlers go on
SaveWrite ==
  /\ run \in {"up", "exiting"}
  /\ saver.pc = "write"
  /\ config' = saver.data
  /\ notify' = FALSE
  /\ saver' = [pc |-> "quit", i |-> 0, data |-> <<>>]
  /\ UNCHANGED <<minPort, maxPort, fresh, lastClaim, instants, Ports, th, held, Hist,
                 run, signalChan, nsig, savedAt, busy>>

\* quit <- struct{}{} meets main's <-quit; the goroutine goes round its loop
SaveQuit ==
  /\ run = "up"
  /\ saver.pc = "quit"
  /\ run' = "exiting"
  /\ saver' = SaverIdle
  /\ UNCHANGED <<minPort, maxPort, fresh, lastClaim, instants, Ports, th, held, Hist,
                 signalChan, nsig, notify, config, savedAt, busy>>

\* main: os.Exit(0) ends every goroutine where it stands
Exit ==
  /\ run = "exiting"
  /\ run' = "exited"
  /\ th' = [t \in Threads |-> Idle]
  /\ signalChan' = 0
  /\ saver' = SaverIdle
  /\ instants' = {}
  /\ UNCHANGED <<minPort, maxPort, fresh, lastClaim, Ports, held, Hist,
                 nsig, notify, config, savedAt, busy>>

\* the program is started again with the same -min and -max: init()
Restart ==
  /\ run = "exited"
  /\ run' = "reloaded"
  /\ Ports' = Load(config, minPort, maxPort)
  /\ held' = [p \in 0..limPort |-> IF p = 0 THEN 0 ELSE Ports'[p]]
  /\ fresh' = FALSE
  /\ notify' = TRUE
  /\ UNCHANGED <<minPort, maxPort, lastClaim, instants, th, Hist,
                 signalChan, saver, nsig, config, savedAt, busy>>

NextShut ==
  \/ \E t \in Threads : StartShut(t)
  \/ \E t \in Threads : NextLoad(t)
  \/ \E t \in Threads : NextCas(t)
  \/ \E t \in Threads : NextLoad2(t)
  \/ \E t \in Threads : NextStore(t)
  \/ \E t \in Threads : Scan(t)
  \/ \E t \in Threads : ScanStore(t)
  \/ \E t \in Threads : Latch(t)
  \/ \E t \in Threads : AssignCas(t)
  \/ \E t \in Threads : ReleaseOff(t)
  \/ \E t \in Threads : ReleaseStore(t)
  \/ \E t \in Threads : Respond(t)
  \/ Signal
  \/ SaveRecv
  \/ SaveMarshal
  \/ SaveCreate
  \/ SaveWrite
  \/ SaveQuit
  \/ Exit
  \/ Restart

\* the run that is shut down is a first run: no config file, an empty table
InitShut == Init /\ Fresh

ShutSpec == InitShut /\ [][NextShut]_vars

\* ======================================================== claims C1 .. C10
Done(t) == th[t].pc = "done"
Ok(t) == Done(t) /\ th[t].status = 200
\* the request ran next(): GET /, or POST of the auto-assign port
IsNextReq(r) == r.op = "get" \/ (r.op = "post" /\ r.port = autoPort)
\* the request ran assign(p) / release(p) for an explicit port
IsAssignReq(r) == r.op = "post" /\ r.port # autoPort
IsReleaseReq(r) == r.op = "del"
OkOut(p) == [status |-> 200, err |-> errNone, body |-> Itoa(p)]
ErrOut(e) == [status |-> 500, err |-> e, body |-> <<>>]
FlagsUnchanged == \A p \in 1..limPort : Ports[p] = pre[p]

\* C1: at most one claimant per port -- under every interleaving a port never
\* has two successful claims outstanding (claims since its last release).
C1_AtMostOneClaimant == \A p \in 0..limPort : held[p] <= 1

\* two overlapping claims on one port: one has just won the compare-and-swap
\* and not yet returned, the other has been refused
C1_Witness ==
  \E t, u \in Threads :
     /\ th[t].pc \in {"next_load2", "next_store", "scan_store"}
     /\ Done(u) /\ IsAssignReq(th[u]) /\ th[u].err = errPortAlreadyAssigned
     /\ th[u].port = th[t].np
     /\ held[th[t].np] = 1

\* C2: from a fresh table, N <= range size concurrent GET / calls and nothing
\* else: every call returns a port and the ports are pairwise distinct.
C2_ConcurrentNextDistinct ==
  launched >= 0 =>
    /\ \A i \in 1..Len(rets) : rets[i] # 0
    /\ \A i, j \in 1..Len(rets) : i # j => rets[i] # rets[j]

\* C3: next() never returns a port outside [minPort, maxPort], nor one that had
\* a claim outstanding when it claimed it; any start-up state, any interleaving.
C3_NextInRangeAndFree ==
  \A t \in Threads :
     (Ok(t) /\ IsNextReq(th[t])) =>
        /\ Atoi(th[t].body) \in RangePorts
        /\ th[t].was = 0

\* next() has returned a port while another goroutine holds a different port
\* that it claimed concurrently
C3_Witness ==
  \E t, u \in Threads :
     /\ Ok(t) /\ IsNextReq(th[t])
     /\ Ok(u) /\ IsAssignReq(th[u])
     /\ th[u].body # th[t].body
     /\ ~fresh

\* C4: in sequential use (here from a fresh table) next() fails only on
\* exhaustion: if a port of the range is free when it starts, it succeeds and
\* returns a port that was free.
C4_FailsOnlyOnExhaustion ==
  \A t \in Threads :
     (fresh /\ Done(t) /\ IsNextReq(th[t]) /\ ~AllAssigned(pre)) =>
        /\ th[t].status = 200
        /\ Atoi(th[t].body) \in RangePorts
        /\ pre[Atoi(th[t].body)] = 0

\* the reference run of a three-port range
Scenario3 ==
  <<OkOut(minPort), OkOut(minPort + 1), ErrOut(errPortAlreadyAssigned),
    OkOut(minPort), OkOut(minPort)>>

\* C5: reuse bias -- in sequential use the next() after a successful release(p)
\* returns p; and the fresh three-port run GET, GET, POST min, DELETE min, GET
\* answers min, min+1, already assigned, min, min.
C5_ReuseBias ==
  /\ \A t \in Threads :
        (Done(t) /\ IsNextReq(th[t]) /\ IsReleaseReq(lastDone)) =>
           (th[t].status = 200 /\ Atoi(th[t].body) = lastDone.port)
  /\ (scenOn /\ RangeSize = 3) =>
        \A i \in 1..Len(scen) : scen[i] = Scenario3[i]

C5_Witness == scenOn /\ RangeSize = 3 /\ Len(scen) = 5

\* the reference run of a one-port range
Scenario1 == <<OkOut(minPort), ErrOut(errAllPortsAssigned)>>

\* C6: in sequential use, when every port of the range is assigned next() fails
\* with "all Ports assigned" and changes no port flag; and on a fresh one-port
\* range the first GET returns the port and the second fails.
C6_ExhaustedFails ==
  /\ \A t \in Threads :
        (Done(t) /\ IsNextReq(th[t]) /\ AllAssigned(pre)) =>
           /\ th[t].status = 500
           /\ th[t].err = errAllPortsAssigned
           /\ FlagsUnchanged
  /\ (scenOn /\ RangeSize = 1) =>
        \A i \in 1..Len(scen) : scen[i] = Scenario1[i]

\* next() has run on a full range of several ports whose hint was in range
C6_Witness ==
  \E t \in Threads :
     /\ Done(t) /\ IsNextReq(th[t]) /\ AllAssigned(pre)
     /\ RangeSize >= 2
     /\ pre[0] <= maxPort

\* C7: in sequential use release(p) followed at once by assign(p) succeeds,
\* returns p and leaves p assigned.
C7_ReleaseThenAssign ==
  \A t \in Threads :
     (/\ Done(t) /\ IsAssignReq(th[t])
      /\ IsReleaseReq(lastDone) /\ lastDone.port = th[t].port) =>
        /\ th[t].status = 200
        /\ Atoi(th[t].body) = th[t].port
        /\ Ports[th[t].port] = 1

C7_Witness ==
  \E t \in Threads :
     /\ Ok(t) /\ IsAssignReq(th[t])
     /\ IsReleaseReq(lastDone) /\ lastDone.port = th[t].port
     /\ Ports[th[t].port] = 1

\* C8: assign(p) of an in-range port that is already assigned fails with
\* "port is already assigned" and changes neither a port flag nor the hint.
C8_AssignAssignedFails ==
  \A t \in Threads :
     (Done(t) /\ IsAssignReq(th[t]) /\ InRange(th[t].port) /\ pre[th[t].port] # 0) =>
        /\ th[t].status = 500
        /\ th[t].err = errPortAlreadyAssigned
        /\ Ports = pre

\* the refused port is the one the hint points at
C8_Witness ==
  \E t \in Threads :
     /\ Done(t) /\ IsAssignReq(th[t]) /\ InRange(th[t].port) /\ pre[th[t].port] # 0
     /\ pre[0] = th[t].port

\* C9: assign(port) with port # 0 outside [minPort, maxPort], and release(port)
\* with any port outside it (0 included), fail with "port out of range" and
\* change neither a port flag nor the hint.
C9_RangeValidation ==
  \A t \in Threads :
     (Done(t) /\ (IsAssignReq(th[t]) \/ IsReleaseReq(th[t])) /\ ~InRange(th[t].port)) =>
        /\ th[t].status = 500
        /\ th[t].err = errPortOutOfRange
        /\ Ports = pre

\* release of a port above the range whose flag a restored snapshot had set:
\* refused, the flag untouched
C9_Witness ==
  \E t \in Threads :
     /\ Done(t) /\ IsReleaseReq(th[t])
     /\ th[t].port > maxPort /\ th[t].port <= limPort
     /\ pre[th[t].port] = 1
     /\ th[t].err = errPortOutOfRange

\* C10: a successful POST /{port} answers the port of its path and changes
\* that port's flag only, from free to assigned -- for every path matching
\* ^/\d{1,5}$, /0 and zero-padded forms included.
C10_PostReturnsRequestedPort ==
  \A t \in Threads :
     (Ok(t) /\ th[t].op = "post") =>
        /\ Atoi(th[t].body) = th[t].port
        /\ pre[th[t].port] = 0
        /\ Ports = [pre EXCEPT ![th[t].port] = 1]

\* ======================================================= claims C11 .. C20
\* C11 as stated: from a fresh table, in every reachable state a port of the
\* range is assigned iff the last operation on it that has completed (returned)
\* and changed it was a successful claim, not yet followed by a release.
C11_AssignedIffLastReturnedClaim ==
  fresh => \A p \in RangePorts : (Ports[p] # 0) <=> lastClaim[p]

\* C11 as amended: from a fresh table, in every reachable state a port of the
\* range is assigned iff the last atomic step that changed it (the
\* compare-and-swap of a successful claim, or the store of a release) was a
\* successful claim's.
C11_AssignedIffLastStepClaim ==
  fresh => \A p \in RangePorts : (Ports[p] # 0) <=> held[p] = 1

\* a release has cleared the port and not yet returned, while the last
\* operation that returned on it was the claim
C11_Witness ==
  /\ fresh
  /\ \E t \in Threads :
        /\ th[t].pc = "rel_store"
        /\ Ports[th[t].port] = 0 /\ held[th[t].port] = 0
        /\ lastClaim[th[t].port]

\* one atomic step of the request goroutine t
Step(t) ==
  \/ NextLoad(t) \/ NextCas(t) \/ NextLoad2(t) \/ NextStore(t)
  \/ Scan(t) \/ ScanStore(t) \/ Latch(t)
  \/ AssignCas(t) \/ ReleaseOff(t) \/ ReleaseStore(t)

\* every goroutine that is scheduled keeps running
FairSpec == Spec /\ \A t \in Threads : WF_vars(Step(t))

InOp(t) == th[t].pc \notin {"idle", "done"}

C12_Bounds ==
  \A t \in Threads :
     /\ InOp(t) => ENABLED Step(t)
     /\ th[t].reads <= 2
     /\ th[t].tries <= RangeSize
     /\ th[t].writes <= 2
     /\ th[t].reads + th[t].tries + th[t].writes <= RangeSize + 3

C14_StatusMapping ==
  \A t \in Threads :
     Done(t) =>
       LET r == th[t]
           out == Outcome(r) IN
       /\ (reqPath = <<>> /\ r.method = "GET") =>
             \/ \E p \in RangePorts : out = OkOut(p)
             \/ out = ErrOut(errAllPortsAssigned)
       /\ (portRegExpMatch(reqPath) /\ r.method \in {"POST", "DELETE"}) =>
             \/ out = OkOut(Atoi(reqPath))
             \/ out = ErrOut(errPortOutOfRange)
             \/ out = ErrOut(errPortAlreadyAssigned)
       /\ (portRegExpMatch(reqPath) /\ r.method \notin {"POST", "DELETE"}) =>
             r.status = 405
       /\ (reqPath # <<>> /\ ~portRegExpMatch(reqPath)) => r.status = 404
       /\ r.status # 200 => FlagsUnchanged

LowestFree(ps) == CHOOSE p \in RangePorts : ps[p] = 0 /\ \A q \in RangePorts : ps[q] = 0 => p <= q

\* C15: fallback scan -- in sequential use, when next() finds the hinted port
\* (hint <= maxPort) assigned, it claims and returns the lowest free port of
\* minPort..maxPort inclusive, and it fails with "all Ports assigned" only if
\* every port of minPort..maxPort is assigned.
C15_ScanFindsLowestFree ==
  \A t \in Threads :
     (Done(t) /\ IsNextReq(th[t]) /\ pre[0] <= maxPort /\ pre[pre[0]] # 0) =>
        IF AllAssigned(pre)
        THEN Outcome(th[t]) = ErrOut(errAllPortsAssigned)
        ELSE /\ Outcome(th[t]) = OkOut(LowestFree(pre))
             /\ Ports[LowestFree(pre)] = 1

\* C16: every successful next() that returns port q has written q + 1 to the
\* hint, under any interleaving with concurrent next and release calls.
C16_HintWrittenIsPortPlusOne ==
  \A t \in Threads :
     (Ok(t) /\ IsNextReq(th[t])) => th[t].wrote = Atoi(th[t].body) + 1

\* C17: exhaustion latch -- in sequential use a next() that fails after its
\* scan leaves the hint at maxPort + 1 and the flags as they were; with the hint
\* above maxPort next() fails at once with "all Ports assigned", without a claim
\* attempt and without a store; and next and assign calls leave a hint that is
\* above maxPort where it is (only a release lowers it).
C17_ExhaustionLatch ==
  \A t \in Threads :
     Done(t) =>
       /\ (IsNextReq(th[t]) /\ pre[0] <= maxPort /\ th[t].status # 200) =>
             /\ Outcome(th[t]) = ErrOut(errAllPortsAssigned)
             /\ Ports = [pre EXCEPT ![0] = maxPort + 1]
       /\ (IsNextReq(th[t]) /\ pre[0] > maxPort) =>
             /\ Outcome(th[t]) = ErrOut(errAllPortsAssigned)
             /\ th[t].tries = 0 /\ th[t].writes = 0
             /\ Ports = pre
       /\ (IsAssignReq(th[t]) /\ pre[0] > maxPort) => Ports[0] = pre[0]

\* the latch set by a failed scan outlived a successful assign, and the next
\* next() fails at once
C17_Witness ==
  \E t \in Threads :
     /\ fresh
     /\ Done(t) /\ IsNextReq(th[t]) /\ th[t].status = 500 /\ th[t].tries = 0
     /\ pre[0] = maxPort + 1
     /\ IsAssignReq(lastDone)

\* C18: in sequential use release(p) of an in-range port always succeeds and
\* answers p, was p assigned or free; afterwards p is free, the hint is p and
\* no other flag has changed; releasing a free port changes no flag, and a
\* second release(p) in a row changes nothing at all.
C18_ReleaseEffect ==
  \A t \in Threads :
     (Done(t) /\ IsReleaseReq(th[t]) /\ InRange(th[t].port)) =>
        /\ Outcome(th[t]) = OkOut(th[t].port)
        /\ Ports = [pre EXCEPT ![th[t].port] = 0, ![0] = th[t].port]
        /\ pre[th[t].port] = 0 => FlagsUnchanged
        /\ (IsReleaseReq(lastDone) /\ lastDone.port = th[t].port) => Ports = pre

\* the second of two releases of one port in a row
C18_Witness ==
  \E t \in Threads :
     /\ Ok(t) /\ IsReleaseReq(th[t]) /\ InRange(th[t].port)
     /\ IsReleaseReq(lastDone) /\ lastDone.port = th[t].port
     /\ Ports[0] = th[t].port /\ Ports[th[t].port] = 0

\* C19: in sequential use a successful assign(p), p # 0, changes the flag of p
\* only, from free to assigned: no other flag changes and the hint stays, even
\* when the hint points at p.
C19_AssignFrame ==
  \A t \in Threads :
     (Ok(t) /\ IsAssignReq(th[t])) =>
        /\ InRange(th[t].port)
        /\ pre[th[t].port] = 0
        /\ Ports = [pre EXCEPT ![th[t].port] = 1]

\* the assigned port is the one the hint points at, and the hint still does
C19_Witness ==
  \E t \in Threads :
     /\ Ok(t) /\ IsAssignReq(th[t])
     /\ pre[0] = th[t].port /\ Ports[0] = th[t].port
     /\ Ports[th[t].port] = 1

\* C13: snapshot round trip -- when the table was quiescent at the shutdown (no
\* request in flight when the save began, none arriving afterwards), the
\* restart with the same minPort and maxPort has every port of the range in the
\* state it had at the shutdown.
C13_SnapshotRoundTrip ==
  (run = "reloaded" /\ savedAt # <<>> /\ ~busy) =>
     \A p \in RangePorts : Ports[p] = savedAt[p]

\* C20: shutdown snapshot consistency -- once the signal is received no new
\* request is accepted while the table is read, and the flags that were
\* marshalled are flags the table had at one instant of the read (hence they
\* include every claim and release answered before the read began).
C20_ConsistentSnapshot ==
  /\ saver.pc = "marshal" => \A t \in Threads : ~ENABLED StartShut(t)
  /\ saver.pc = "create" => Flags(Unmarshal(saver.data)) \in instants

\* ======================================================= claims C21 .. C23
\* a save sequence (marshal, create, write) is in progress
Saving == saver.pc \in {"marshal", "create", "write"}

\* C21: the snapshot file is written exactly once per process lifetime -- for
\* any signals delivered the save sequence runs once (a save never runs after
\* the first one wrote the file and called signal.Stop), and when the process
\* has exited the file on disk is a complete snapshot.
C21_SavedExactlyOnce ==
  /\ Saving => notify
  /\ run = "exited" => Len(config) = limPort + 1

\* C22: index safety -- from any start-up state and under any interleaving the
\* hint is never below minPort, every slot a compare-and-swap or the store of a
\* release is about to touch has an index in [minPort, maxPort] (so inside the
\* array), and slot 0, the hint, is never claimed as a port.
C22_IndexSafety ==
  /\ Ports[0] >= minPort
  /\ held[0] = 0
  /\ \A t \in Threads :
       /\ th[t].pc \in {"next_cas", "scan"} => th[t].np \in RangePorts
       /\ th[t].pc \in {"assign_cas", "rel_off"} => th[t].port \in RangePorts

\* from a restored table, a scan is about to try the slot that a release is
\* about to clear
C22_Witness ==
  \E t, u \in Threads :
     /\ ~fresh
     /\ th[t].pc = "scan" /\ th[u].pc = "rel_off"
     /\ th[t].np = th[u].port

\* C23: hint upper bound -- in every reachable state, under every interleaving
\* of next, assign and release, the hint stays within [minPort, maxPort + 1].
C23_HintUpperBound == Ports[0] \in minPort..(maxPort + 1)

====
